---- MODULE Spec2Model ----
(***************************************************************************)
(* Model of the action_logs application: the ActionLog record store, the   *)
(* Loggable models (User, Blog, Comment, UserProfile), their save()/       *)
(* delete() overrides, the post_save/post_delete receivers of signals.py   *)
(* and the ORM behaviour they rest on (INSERT-or-UPDATE in Model.save,     *)
(* the deletion collector with CASCADE, SET_NULL and GenericRelation).     *)
(***************************************************************************)
EXTENDS Integers, Sequences, FiniteSets, TLC

(***************************************************************************)
(* Bounds of the model.                                                    *)
(***************************************************************************)
MaxUsers == 2       \* primary keys of auth_user are 1..MaxUsers
MaxBlogs == 2       \* primary keys of Blog are 1..MaxBlogs
MaxComments == 1    \* primary keys of Comment are 1..MaxComments
MaxProfiles == 1    \* primary keys of UserProfile are 1..MaxProfiles
MaxLogId == 4       \* at most MaxLogId ActionLog rows are ever inserted
MaxTime == 1        \* the clock runs over 0..MaxTime
MaxFault == 3       \* a fault hits the 1st..MaxFault-th ActionLog statement
MaxCallerLogs == 1  \* rows written by explicit log_action callers kept at once
MaxWorkers == 1     \* processes inside log_action or the log loop (statement level)
MaxAgo == 1         \* create_test_data dates a record 0..MaxAgo back
MaxQueryLogs == 3   \* records in the store the read endpoints are checked over
SmallPage == 2      \* a page size below the size of that store
MaxCallers == 2     \* processes that may be inside log_action at the same time

(***************************************************************************)
(* Program constants and value sets.                                       *)
(***************************************************************************)
NULL == 0           \* a NULL foreign key / an unset primary key (None)
NoType == "None"    \* content_type IS NULL
NoId == "None"      \* object_id IS NULL
NoIp == "None"      \* ip_address IS NULL

ACTION_TYPES ==
    {"create", "update", "delete", "view", "login", "logout",
     "download", "upload", "share", "other"}

UserKind == "user"
BlogKind == "blog"
CommentKind == "comment"
ProfileKind == "userprofile"
Kinds == {UserKind, BlogKind, CommentKind, ProfileKind}
LoggedKinds == {BlogKind, CommentKind, ProfileKind}

MaxPk(kind) ==
    CASE kind = UserKind -> MaxUsers
      [] kind = BlogKind -> MaxBlogs
      [] kind = CommentKind -> MaxComments
      [] kind = ProfileKind -> MaxProfiles
Pks(kind) == 1..MaxPk(kind)
Titles == {"t1", "t2"}

\* str(pk): the text Django stores in the CharField object_id.
Digits == <<"1", "2", "3", "4", "5", "6", "7", "8", "9">>
PkStr(n) == Digits[n]
\* The primary key an object_id text denotes, NULL when it denotes none.
StrPk(s) ==
    IF \E n \in DOMAIN Digits : Digits[n] = s
    THEN CHOOSE n \in DOMAIN Digits : Digits[n] = s
    ELSE NULL

Username(u) == <<"u1", "u2", "u3", "u4", "u5", "u6", "u7", "u8", "u9">>[u]

\* Description texts: a template and the name formatted into it.  The
\* templates stand for the source's f-string texts, written in English.
Desc(tmpl, name) == [tmpl |-> tmpl, name |-> name]
NoDesc == Desc("", "")

VARIABLES
    users,      \* set of primary keys of the auth_user rows
    blogs,      \* pk -> [author, title] : the Blog rows
    comments,   \* pk -> [blog, author]  : the Comment rows
    profiles,   \* pk -> [user]          : the UserProfile rows
    logs,       \* sequence of ActionLog rows, in insertion order
    maxPk,      \* kind -> highest primary key ever inserted (AUTOINCREMENT)
    nextLogId,  \* the id given to the next ActionLog row
    now,        \* the clock read by auto_now_add
    calls,      \* worker -> a log_action call in flight (statement level)
    op,         \* the last operation: what was called and how it ended
    view        \* the response to the last read request; NoView after a write

vars == <<users, blogs, comments, profiles, logs, maxPk, nextLogId, now, calls, op, view>>

(***************************************************************************)
(* Finite functions as tables.                                             *)
(***************************************************************************)
Put(f, k, v) == [x \in (DOMAIN f) \cup {k} |-> IF x = k THEN v ELSE f[x]]
Drop(f, S) == [x \in (DOMAIN f) \ S |-> f[x]]
EmptyTable == [x \in {} |-> NULL]

\* The elements of a finite set of numbers as a sequence, largest first.
RECURSIVE Descending(_)
Descending(S) ==
    IF S = {} THEN <<>>
    ELSE LET m == CHOOSE x \in S : \A y \in S : y <= x
         IN <<m>> \o Descending(S \ {m})

Max(a, b) == IF a >= b THEN a ELSE b

(***************************************************************************)
(* Model instances as the targets of records.                              *)
(***************************************************************************)
\* A model instance as the target of a record; NoObj is obj=None.
Obj(kind, pk) == [kind |-> kind, pk |-> pk]
NoObj == Obj(NoType, NULL)

Exists(s, obj) ==
    CASE obj.kind = UserKind -> obj.pk \in s.users
      [] obj.kind = BlogKind -> obj.pk \in DOMAIN s.blogs
      [] obj.kind = CommentKind -> obj.pk \in DOMAIN s.comments
      [] obj.kind = ProfileKind -> obj.pk \in DOMAIN s.profiles
      [] OTHER -> FALSE

(***************************************************************************)
(* class ActionLog                                                         *)
(***************************************************************************)
\* An ActionLog instance built with the given keyword arguments; assigning
\* content_object sets content_type and object_id from the instance.
\* A row that keeps no target.
ActionLogRowNoTarget(id, action_type, user, obj, description, ip_address, user_agent, ts) ==
    [id |-> id, action_type |-> action_type, timestamp |-> ts, user |-> user,
     content_type |-> NoType, object_id |-> NoId,
     description |-> description, ip_address |-> ip_address,
     user_agent |-> user_agent]

ActionLogRow(id, action_type, user, obj, description, ip_address, user_agent, ts) ==
    [id |-> id, action_type |-> action_type, timestamp |-> ts, user |-> user,
     content_type |-> obj.kind,
     object_id |-> IF obj.pk = NULL THEN NoId ELSE PkStr(obj.pk),
     description |-> description, ip_address |-> ip_address,
     user_agent |-> user_agent]

\* No ActionLog instance (None).
NoLog == ActionLogRow(NULL, "", NULL, NoObj, NoDesc, NoIp, "", 0)

(***************************************************************************)
(* The execution of one handler: the tables it reads and writes, the       *)
(* number n of ActionLog statements it has issued, the statement the       *)
(* injected fault hits (0: none), whether an exception is propagating, the *)
(* primary key and the created flag of the last Model.save(), and the      *)
(* instance the last log_action returned.  Every statement runs in         *)
(* autocommit mode unless a handler says otherwise.                        *)
(***************************************************************************)
Ctx(fault) ==
    [users |-> users, blogs |-> blogs, comments |-> comments,
     profiles |-> profiles, logs |-> logs, maxPk |-> maxPk,
     nextLogId |-> nextLogId, now |-> now,
     n |-> 0, fault |-> fault, raised |-> FALSE, pk |-> NULL, created |-> FALSE,
     ret |-> NoLog]

\* ActionLog.objects.create(**kwargs): one INSERT; id and timestamp are
\* filled in by the field defaults (uuid4, auto_now_add).
ObjectsCreate(s, action_type, user, obj, description, ip_address, user_agent) ==
    IF s.raised THEN s
    ELSE IF s.n + 1 = s.fault THEN [s EXCEPT !.n = @ + 1, !.raised = TRUE]
    ELSE [s EXCEPT !.n = @ + 1,
                   !.logs = Append(@, ActionLogRow(s.nextLogId, action_type, user, obj,
                                       description, ip_address, user_agent, s.now)),
                   !.nextLogId = @ + 1]

\* Model.save() of an ActionLog instance that was loaded or created before:
\* UPDATE of every column by primary key, INSERT when no row was updated;
\* the INSERT fills timestamp in again (auto_now_add).
\* An UPDATE that writes the instance over the last row of the table.
SaveRowOverLast(rows, inst, ts) ==
    IF \E i \in 1..Len(rows) : rows[i].id = inst.id
    THEN [i \in 1..Len(rows) |-> IF i = Len(rows) THEN inst ELSE rows[i]]
    ELSE Append(rows, [inst EXCEPT !.timestamp = ts])

SaveRow(rows, inst, ts) ==
    IF \E i \in 1..Len(rows) : rows[i].id = inst.id
    THEN [i \in 1..Len(rows) |-> IF rows[i].id = inst.id THEN inst ELSE rows[i]]
    ELSE Append(rows, [inst EXCEPT !.timestamp = ts])

LogSave(s, inst) ==
    IF s.raised THEN s
    ELSE IF s.n + 1 = s.fault THEN [s EXCEPT !.n = @ + 1, !.raised = TRUE]
    ELSE [s EXCEPT !.n = @ + 1, !.logs = SaveRow(@, inst, s.now)]

\* log_action without its "if obj:" branch: the row is created and returned
\* as it is, the target never stored.
LogActionWithoutTarget(s, user, action_type, obj, description, ip_address, user_agent) ==
    LET s1 == ObjectsCreate(s, action_type, user, NoObj, description,
                            ip_address, user_agent)
        log == ActionLogRow(s.nextLogId, action_type, user, NoObj, description,
                            ip_address, user_agent, s.now)
    IN IF s1.raised THEN s1 ELSE [s1 EXCEPT !.ret = log]

\* ActionLog.log_action: create the row, then, for a truthy obj, set
\* content_object on the instance and save it; return the instance.
LogAction(s, user, action_type, obj, description, ip_address, user_agent) ==
    LET s1 == ObjectsCreate(s, action_type, user, NoObj, description,
                            ip_address, user_agent)
        log == ActionLogRow(s.nextLogId, action_type, user, obj, description,
                            ip_address, user_agent, s.now)
        s2 == IF obj # NoObj THEN LogSave(s1, log) ELSE s1
    IN IF s2.raised THEN s2 ELSE [s2 EXCEPT !.ret = log]

\* ActionLog.content_object: the live instance the row points at, or NoObj.
ContentObject(s, row) ==
    IF row.content_type = NoType \/ row.object_id = NoId THEN NoObj
    ELSE LET obj == Obj(row.content_type, StrPk(row.object_id))
         IN IF Exists(s, obj) THEN obj ELSE NoObj

\* LoggedModel.log_action: ActionLog.log_action with obj=self.
LoggedModelLogAction(s, self, user, action_type, description, ip_address, user_agent) ==
    LogAction(s, user, action_type, self, description, ip_address, user_agent)

\* LoggedModel.action_logs (GenericRelation): the rows whose target is self.
TargetsObj(row, obj) ==
    row.content_type = obj.kind /\ row.object_id = PkStr(obj.pk)
(***************************************************************************)
(* signals.py: the post_save receivers.  A receiver that raises stops the  *)
(* dispatch (Signal.send) and the exception reaches the caller of save().  *)
(***************************************************************************)
\* str.capitalize() of the two action types the receivers format.
Capitalize(action_type) == IF action_type = "create" THEN "Create" ELSE "Update"

\* A receiver that logs every save of a User as its creation.
log_user_save_as_create(s, instance, created) ==
    ObjectsCreate(s, "create", instance.pk, Obj(UserKind, instance.pk),
                  Desc("Create user: ", Username(instance.pk)), NoIp, "")

log_user_save(s, instance, created) ==
    LET action_type == IF created THEN "create" ELSE "update"
    IN ObjectsCreate(s, action_type, instance.pk, Obj(UserKind, instance.pk),
                     Desc(Capitalize(action_type) \o " user: ", Username(instance.pk)),
                     NoIp, "")

log_profile_save(s, instance, created) ==
    LET action_type == IF created THEN "create" ELSE "update"
    IN ObjectsCreate(s, action_type, instance.user, Obj(ProfileKind, instance.pk),
                     Desc(Capitalize(action_type) \o " profile ", Username(instance.user)),
                     NoIp, "")

log_blog_save(s, instance, created) ==
    IF created THEN s
    ELSE LoggedModelLogAction(s, Obj(BlogKind, instance.pk), instance.author, "update",
                              Desc("Updated blog: ", instance.title), NoIp, "")

log_comment_save(s, instance, created) ==
    IF created THEN s
    ELSE LoggedModelLogAction(s, Obj(CommentKind, instance.pk), instance.author, "update",
                              Desc("Updated comment to ", s.blogs[instance.blog].title),
                              NoIp, "")

\* The receiver connected to every sender: both of its branches return
\* without writing anything.
universal_log_save(s, sender, instance, created) == s

(***************************************************************************)
(* Model.save(): UPDATE when the instance has a primary key and its row    *)
(* exists, INSERT otherwise (with the next AUTOINCREMENT key when the      *)
(* instance has none); then post_save with created = "the row was          *)
(* inserted", outside the statement's transaction.                         *)
(***************************************************************************)
SavePk(s, kind, pk) == IF pk = NULL THEN s.maxPk[kind] + 1 ELSE pk

UserSave(s, inst) ==
    LET created == ~(inst.pk # NULL /\ inst.pk \in s.users)
        pk == SavePk(s, UserKind, inst.pk)
        s1 == [s EXCEPT !.users = @ \cup {pk},
                        !.maxPk[UserKind] = Max(@, pk),
                        !.pk = pk, !.created = created]
        instance == [inst EXCEPT !.pk = pk]
    IN universal_log_save(log_user_save(s1, instance, created),
                          UserKind, instance, created)

ModelSaveBlog(s, inst) ==
    LET created == ~(inst.pk # NULL /\ inst.pk \in DOMAIN s.blogs)
        pk == SavePk(s, BlogKind, inst.pk)
        s1 == [s EXCEPT !.blogs = Put(@, pk, [author |-> inst.author, title |-> inst.title]),
                        !.maxPk[BlogKind] = Max(@, pk),
                        !.pk = pk, !.created = created]
        instance == [inst EXCEPT !.pk = pk]
    IN universal_log_save(log_blog_save(s1, instance, created),
                          BlogKind, instance, created)

ModelSaveComment(s, inst) ==
    LET created == ~(inst.pk # NULL /\ inst.pk \in DOMAIN s.comments)
        pk == SavePk(s, CommentKind, inst.pk)
        s1 == [s EXCEPT !.comments = Put(@, pk, [blog |-> inst.blog, author |-> inst.author]),
                        !.maxPk[CommentKind] = Max(@, pk),
                        !.pk = pk, !.created = created]
        instance == [inst EXCEPT !.pk = pk]
    IN universal_log_save(log_comment_save(s1, instance, created),
                          CommentKind, instance, created)

ModelSaveProfile(s, inst) ==
    LET created == ~(inst.pk # NULL /\ inst.pk \in DOMAIN s.profiles)
        pk == SavePk(s, ProfileKind, inst.pk)
        s1 == [s EXCEPT !.profiles = Put(@, pk, [user |-> inst.user]),
                        !.maxPk[ProfileKind] = Max(@, pk),
                        !.pk = pk, !.created = created]
        instance == [inst EXCEPT !.pk = pk]
    IN universal_log_save(log_profile_save(s1, instance, created),
                          ProfileKind, instance, created)

(***************************************************************************)
(* The save() overrides of models.py.                                      *)
(***************************************************************************)
BlogSave(s, self) ==
    LET is_new == self.pk = NULL
        s1 == ModelSaveBlog(s, self)
    IN IF is_new
       THEN LoggedModelLogAction(s1, Obj(BlogKind, s1.pk), self.author, "create",
                                 Desc("Created blog: ", self.title), NoIp, "")
       ELSE LoggedModelLogAction(s1, Obj(BlogKind, s1.pk), self.author, "update",
                                 Desc("Updated blog: ", self.title), NoIp, "")

CommentSave(s, self) ==
    LET is_new == self.pk = NULL
        s1 == ModelSaveComment(s, self)
    IN IF is_new
       THEN LoggedModelLogAction(s1, Obj(CommentKind, s1.pk), self.author, "create",
                                 Desc("Added comment to blog: ", s1.blogs[self.blog].title),
                                 NoIp, "")
       ELSE s1

UserProfileSave(s, self) ==
    LET is_new == self.pk = NULL
        s1 == ModelSaveProfile(s, self)
    IN IF is_new
       THEN LoggedModelLogAction(s1, Obj(ProfileKind, s1.pk), self.user, "create",
                                 Desc("Created profile for ", Username(self.user)), NoIp, "")
       ELSE LoggedModelLogAction(s1, Obj(ProfileKind, s1.pk), self.user, "update",
                                 Desc("Updated profile ", Username(self.user)), NoIp, "")
(***************************************************************************)
(* signals.py: the post_delete receivers.  They run inside the collector's *)
(* transaction, after the rows of their model were deleted and before the  *)
(* rows of the models those depend on are.                                 *)
(***************************************************************************)
\* A post_delete receiver of Blog that writes nothing.
log_blog_delete_silent(s, instance) == s

log_blog_delete(s, instance) ==
    ObjectsCreate(s, "delete", instance.author, NoObj,
                  Desc("Deleted blog: ", instance.title), NoIp, "")

log_comment_delete(s, instance) ==
    ObjectsCreate(s, "delete", instance.author, NoObj,
                  Desc("Deleted comment to ", s.blogs[instance.blog].title), NoIp, "")

RECURSIVE SendPostDeleteComments(_, _, _)
SendPostDeleteComments(s, pks, rows) ==
    IF pks = <<>> THEN s
    ELSE SendPostDeleteComments(
             log_comment_delete(s, [pk |-> Head(pks), blog |-> rows[Head(pks)].blog,
                                    author |-> rows[Head(pks)].author]),
             Tail(pks), rows)

RECURSIVE SendPostDeleteBlogs(_, _, _)
SendPostDeleteBlogs(s, pks, rows) ==
    IF pks = <<>> THEN s
    ELSE SendPostDeleteBlogs(
             log_blog_delete(s, [pk |-> Head(pks), author |-> rows[Head(pks)].author,
                                 title |-> rows[Head(pks)].title]),
             Tail(pks), rows)

(***************************************************************************)
(* The deletion collector behind Model.delete() and QuerySet.delete().     *)
(* del names the rows to delete, by table.  Collection follows CASCADE     *)
(* (Blog.author, Comment.blog, Comment.author, UserProfile.user) and the   *)
(* GenericRelation of LoggedModel (rows of ActionLog whose target is a     *)
(* collected Blog, Comment or UserProfile); ActionLog.user is SET_NULL.    *)
(* One transaction: the collected ActionLog rows are deleted, the field    *)
(* updates run, then each model's rows are deleted, dependants first, its  *)
(* post_delete receivers running after its rows are gone.  An exception,   *)
(* or a foreign key still naming a deleted user when the transaction       *)
(* commits, rolls all of it back; fkChecks tells whether the database      *)
(* checks foreign keys.                                                    *)
(***************************************************************************)
Del(U, B, C, P) == [users |-> U, blogs |-> B, comments |-> C, profiles |-> P]

Collect(s, del) ==
    LET B == del.blogs \cup {b \in DOMAIN s.blogs : s.blogs[b].author \in del.users}
        C == del.comments \cup
             {c \in DOMAIN s.comments :
                 s.comments[c].author \in del.users \/ s.comments[c].blog \in B}
        P == del.profiles \cup {p \in DOMAIN s.profiles : s.profiles[p].user \in del.users}
    IN Del(del.users, B, C, P)

\* Whether the GenericRelation of a collected instance reaches the row.
Collected(row, all) ==
    \/ \E b \in all.blogs : TargetsObj(row, Obj(BlogKind, b))
    \/ \E c \in all.comments : TargetsObj(row, Obj(CommentKind, c))
    \/ \E p \in all.profiles : TargetsObj(row, Obj(ProfileKind, p))

SetNull(row, U) == IF row.user \in U THEN [row EXCEPT !.user = NULL] ELSE row

Rollback(s0, s) == [s0 EXCEPT !.raised = TRUE, !.n = s.n]

CollectorDelete(s0, del, fkChecks) ==
    LET all == Collect(s0, del)
        kept == SelectSeq(s0.logs, LAMBDA row : ~Collected(row, all))
        s1 == [s0 EXCEPT !.logs = [i \in 1..Len(kept) |-> SetNull(kept[i], all.users)]]
        s2 == SendPostDeleteComments(
                  [s1 EXCEPT !.comments = Drop(@, all.comments)],
                  Descending(all.comments), s0.comments)
        s3 == SendPostDeleteBlogs(
                  [s2 EXCEPT !.blogs = Drop(@, all.blogs)],
                  Descending(all.blogs), s0.blogs)
        s4 == [s3 EXCEPT !.profiles = Drop(@, all.profiles),
                         !.users = @ \ all.users]
        dangling == \E i \in 1..Len(s4.logs) : s4.logs[i].user \in all.users
    IN IF s4.raised THEN Rollback(s0, s4)
       ELSE IF dangling /\ fkChecks THEN Rollback(s0, s4)
       ELSE s4

\* Blog.delete(): log the deletion with obj=self, then delete.
BlogDelete(s, self, fkChecks) ==
    LET s1 == LoggedModelLogAction(s, Obj(BlogKind, self.pk), self.author, "delete",
                                   Desc("Deleted blog: ", self.title), NoIp, "")
    IN IF s1.raised THEN s1
       ELSE CollectorDelete(s1, Del({}, {self.pk}, {}, {}), fkChecks)
(***************************************************************************)
(* The operations of the program as actions.  op records the operation     *)
(* just run: its name, the instance it was called on, whether the save     *)
(* inserted the row, whether an exception reached the caller, whether an   *)
(* ActionLog statement failed, the arguments of a log_action call and the  *)
(* instance it returned.                                                   *)
(***************************************************************************)
Workers == 1..MaxWorkers
Callers == 1..MaxCallers
Idle == [pc |-> "idle", log |-> NoLog]

Args(user, action_type, description, ip_address, user_agent) ==
    [user |-> user, action_type |-> action_type, description |-> description,
     ip_address |-> ip_address, user_agent |-> user_agent]
NoArgs == Args(NULL, "", NoDesc, NoIp, "")

Op(name, obj, r, args) ==
    [name |-> name, obj |-> obj, created |-> r.created, raised |-> r.raised,
     fault |-> r.fault # 0, args |-> args, ret |-> r.ret]

\* No response: nothing was requested since the last write.
NoView == [name |-> "none"]

\* The tables after the handler whose execution ended in r.  A behaviour
\* is followed up to the first operation in which a statement failed, and
\* a fault is one that hit a statement the handler issued.
Tables(r) ==
    /\ ~op.fault
    /\ r.nextLogId <= MaxLogId + 1
    /\ r.fault = 0 \/ r.n >= r.fault
    /\ users' = r.users
    /\ blogs' = r.blogs
    /\ comments' = r.comments
    /\ profiles' = r.profiles
    /\ logs' = r.logs
    /\ maxPk' = r.maxPk
    /\ nextLogId' = r.nextLogId
    /\ view' = NoView

\* A handler run as one step: no time passes, no log_action call is cut.
Commit(r) == Tables(r) /\ UNCHANGED <<now, calls>>

Faults == 0..MaxFault
NoFaults == {0}

Init ==
    /\ users = {}
    /\ blogs = EmptyTable
    /\ comments = EmptyTable
    /\ profiles = EmptyTable
    /\ logs = <<>>
    /\ maxPk = [k \in Kinds |-> 0]
    /\ nextLogId = 1
    /\ now = 0
    /\ calls = [w \in Callers |-> Idle]
    /\ view = NoView
    /\ op = [name |-> "init", obj |-> NoObj, created |-> FALSE, raised |-> FALSE,
             fault |-> FALSE, args |-> NoArgs, ret |-> NoLog]

\* User.objects.create_user(...), and user.save() of a stored user.
SaveUser(F) ==
    \E pk \in {NULL} \cup users, fault \in F :
        /\ pk = NULL => maxPk[UserKind] < MaxPk(UserKind)
        /\ \E r \in {UserSave(Ctx(fault), [pk |-> pk])} :
              /\ Commit(r)
              /\ op' = Op("save", Obj(UserKind, r.pk), r, NoArgs)

\* Blog(...).save() and Blog.objects.create(...): the instance has no
\* primary key, or the caller gave it one.
SaveBlog(F) ==
    \E pk \in {NULL} \cup Pks(BlogKind), author \in users, title \in Titles, fault \in F :
        /\ pk = NULL => maxPk[BlogKind] < MaxPk(BlogKind)
        /\ \E r \in {BlogSave(Ctx(fault), [pk |-> pk, author |-> author, title |-> title])} :
              /\ Commit(r)
              /\ op' = Op("save", Obj(BlogKind, r.pk), r, NoArgs)

SaveComment(F) ==
    \E pk \in {NULL} \cup Pks(CommentKind), blog \in DOMAIN blogs, author \in users,
       fault \in F :
        /\ pk = NULL => maxPk[CommentKind] < MaxPk(CommentKind)
        /\ \E r \in {CommentSave(Ctx(fault), [pk |-> pk, blog |-> blog, author |-> author])} :
              /\ Commit(r)
              /\ op' = Op("save", Obj(CommentKind, r.pk), r, NoArgs)

\* UserProfile.user is one-to-one: an insert needs a user without a
\* profile, an update keeps the profile's user.
SaveProfile(F) ==
    \E pk \in {NULL} \cup Pks(ProfileKind), user \in users, fault \in F :
        /\ pk = NULL => maxPk[ProfileKind] < MaxPk(ProfileKind)
        /\ IF pk \in DOMAIN profiles
           THEN profiles[pk].user = user
           ELSE \A p \in DOMAIN profiles : profiles[p].user # user
        /\ \E r \in {UserProfileSave(Ctx(fault), [pk |-> pk, user |-> user])} :
              /\ Commit(r)
              /\ op' = Op("save", Obj(ProfileKind, r.pk), r, NoArgs)

\* blog.delete()
DeleteBlog(F) ==
    \E b \in DOMAIN blogs, fault \in F, fkChecks \in BOOLEAN :
        \E r \in {BlogDelete(Ctx(fault), [pk |-> b, author |-> blogs[b].author,
                                          title |-> blogs[b].title], fkChecks)} :
            /\ Commit(r)
            /\ op' = Op("delete", Obj(BlogKind, b), r, NoArgs)

\* Model.delete() of a Comment, a UserProfile or a User: no override.
DeleteComment(F) ==
    \E c \in DOMAIN comments, fault \in F, fkChecks \in BOOLEAN :
        \E r \in {CollectorDelete(Ctx(fault), Del({}, {}, {c}, {}), fkChecks)} :
            /\ Commit(r)
            /\ op' = Op("delete", Obj(CommentKind, c), r, NoArgs)

DeleteProfile(F) ==
    \E p \in DOMAIN profiles, fault \in F, fkChecks \in BOOLEAN :
        \E r \in {CollectorDelete(Ctx(fault), Del({}, {}, {}, {p}), fkChecks)} :
            /\ Commit(r)
            /\ op' = Op("delete", Obj(ProfileKind, p), r, NoArgs)

DeleteUser(F) ==
    \E u \in users, fault \in F, fkChecks \in BOOLEAN :
        \E r \in {CollectorDelete(Ctx(fault), Del({u}, {}, {}, {}), fkChecks)} :
            /\ Commit(r)
            /\ op' = Op("delete", Obj(UserKind, u), r, NoArgs)

\* Blog.objects.all().delete() and the like: the collector on every row of
\* a table, without the model's delete().
DeleteQuerySet(F) ==
    \E fault \in F, fkChecks \in BOOLEAN :
        \/ /\ DOMAIN blogs # {}
           /\ \E r \in {CollectorDelete(Ctx(fault), Del({}, DOMAIN blogs, {}, {}), fkChecks)} :
                  Commit(r) /\ op' = Op("qs_delete", Obj(BlogKind, NULL), r, NoArgs)
        \/ /\ DOMAIN comments # {}
           /\ \E r \in {CollectorDelete(Ctx(fault), Del({}, {}, DOMAIN comments, {}), fkChecks)} :
                  Commit(r) /\ op' = Op("qs_delete", Obj(CommentKind, NULL), r, NoArgs)
        \/ /\ DOMAIN profiles # {}
           /\ \E r \in {CollectorDelete(Ctx(fault), Del({}, {}, {}, DOMAIN profiles), fkChecks)} :
                  Commit(r) /\ op' = Op("qs_delete", Obj(ProfileKind, NULL), r, NoArgs)
        \/ /\ users # {}
           /\ \E r \in {CollectorDelete(Ctx(fault), Del(users, {}, {}, {}), fkChecks)} :
                  Commit(r) /\ op' = Op("qs_delete", Obj(UserKind, NULL), r, NoArgs)

\* ActionLog.objects.all().delete()
DeleteLogs ==
    /\ logs # <<>>
    /\ logs' = <<>>
    /\ op' = [name |-> "purge", obj |-> NoObj, created |-> FALSE, raised |-> FALSE,
              fault |-> FALSE, args |-> NoArgs, ret |-> NoLog]
    /\ view' = NoView
    /\ UNCHANGED <<users, blogs, comments, profiles, maxPk, nextLogId, now, calls>>

\* The instances a caller can hold: every stored row of every kind.
Instances ==
    {Obj(UserKind, u) : u \in users} \cup {Obj(BlogKind, b) : b \in DOMAIN blogs}
    \cup {Obj(CommentKind, c) : c \in DOMAIN comments}
    \cup {Obj(ProfileKind, p) : p \in DOMAIN profiles}

CallerActionTypes == {"view", "archive"}
CallerDesc == Desc("User viewed ", "it")
CallerIps == {"127.0.0.1"}
CmdActionTypes == {"other"}
CmdDesc == Desc("Other system action", " (log #1)")
CmdIps == {"192.168.1.1"}
CmdUserAgents == {"Mozilla/5.0 (X11; Linux x86_64) AppleWebKit/537.36"}
CallerLogs == {i \in 1..Len(logs) : logs[i].description \in {CallerDesc, CmdDesc}}

\* ActionLog.log_action(user, action_type, obj, description, ip_address)
\* called by application code.
CallLogAction(F) ==
    \E user \in {NULL} \cup users, action_type \in CallerActionTypes,
       obj \in {NoObj} \cup Instances, ip_address \in CallerIps, fault \in F :
        /\ Cardinality(CallerLogs) < MaxCallerLogs
        /\ \E r \in {LogAction(Ctx(fault), user, action_type, obj, CallerDesc,
                               ip_address, "")} :
              /\ Commit(r)
              /\ op' = Op("log_action", obj, r,
                          Args(user, action_type, CallerDesc, ip_address, ""))

\* instance.log_action(user, action_type, description, ip_address) on a
\* Blog, Comment or UserProfile.
CallLoggedModelLogAction(F) ==
    \E user \in {NULL} \cup users, action_type \in CallerActionTypes,
       self \in {o \in Instances : o.kind \in LoggedKinds},
       ip_address \in CallerIps, fault \in F :
        /\ Cardinality(CallerLogs) < MaxCallerLogs
        /\ \E r \in {LoggedModelLogAction(Ctx(fault), self, user, action_type,
                                          CallerDesc, ip_address, "")} :
              /\ Commit(r)
              /\ op' = Op("model_log_action", self, r,
                          Args(user, action_type, CallerDesc, ip_address, ""))

\* Time passes between two statements.
Tick ==
    /\ now < MaxTime
    /\ now' = now + 1
    /\ UNCHANGED <<users, blogs, comments, profiles, logs, maxPk, nextLogId, calls, op, view>>

(***************************************************************************)
(* ActionLog.log_action and the log loop of create_test_data, statement by *)
(* statement: each statement is its own transaction, and other processes   *)
(* run between two of them.  calls[w] holds the instance worker w created  *)
(* and where w stands.                                                     *)
(***************************************************************************)
StmtOp(name, obj, r) ==
    [name |-> name, obj |-> obj, created |-> FALSE, raised |-> r.raised,
     fault |-> FALSE, args |-> NoArgs, ret |-> r.ret]

\* log = cls.objects.create(...); if obj: log.content_object = obj
LogActionInsert(w, user, action_type, obj, ip_address) ==
    /\ calls[w].pc = "idle"
    /\ \E r \in {ObjectsCreate(Ctx(0), action_type, user, NoObj, CallerDesc,
                               ip_address, "")} :
          /\ Tables(r)
          /\ LET log == ActionLogRow(nextLogId, action_type, user, obj, CallerDesc,
                                     ip_address, "", now)
             IN /\ calls' = [calls EXCEPT ![w] =
                                IF obj = NoObj THEN Idle
                                ELSE [pc |-> "log_action", log |-> log]]
                /\ op' = StmtOp("log_action.create", obj, [r EXCEPT !.ret = log])
    /\ UNCHANGED now

LogActionCreate(w) ==
    \E user \in {NULL} \cup users, action_type \in CallerActionTypes,
       obj \in {NoObj} \cup Instances, ip_address \in CallerIps :
        /\ Cardinality(CallerLogs) < MaxCallerLogs
        /\ LogActionInsert(w, user, action_type, obj, ip_address)

\* The first statement of a log_action call with a target, made while
\* other processes may be between the two statements of theirs.
ConcurrentLogActionCreate(w) ==
    \E user \in {NULL} \cup users, action_type \in CallerActionTypes,
       obj \in Instances, ip_address \in CallerIps :
        /\ Cardinality(CallerLogs) < MaxCallers
        /\ LogActionInsert(w, user, action_type, obj, ip_address)

\* log.save(): the UPDATE writes every column of the instance, the user
\* read before the call included; a user deleted since then fails the
\* statement where the database checks foreign keys.
LogActionSave(w) ==
    \E fkChecks \in BOOLEAN :
        LET log == calls[w].log
            dangling == log.user # NULL /\ log.user \notin users
            s == [Ctx(0) EXCEPT !.ret = log]
        IN /\ calls[w].pc = "log_action"
           /\ \E r \in {IF dangling /\ fkChecks THEN [s EXCEPT !.raised = TRUE]
                        ELSE LogSave(s, log)} :
                 /\ Tables(r)
                 /\ op' = StmtOp("log_action.save", NoObj, r)
           /\ calls' = [calls EXCEPT ![w] = Idle]
           /\ UNCHANGED now

\* create_test_data: log = ActionLog.objects.create(..., content_object=...)
CmdCreateLog(w) ==
    \E user \in {NULL} \cup users, action_type \in CmdActionTypes,
       content_obj \in {NoObj} \cup Instances, ip_address \in CmdIps,
       user_agent \in CmdUserAgents :
        /\ calls[w].pc = "idle"
        /\ Cardinality(CallerLogs) < MaxCallerLogs
        /\ \E r \in {ObjectsCreate(Ctx(0), action_type, user, content_obj, CmdDesc,
                                   ip_address, user_agent)} :
              /\ Tables(r)
              /\ LET log == ActionLogRow(nextLogId, action_type, user, content_obj,
                                         CmdDesc, ip_address, user_agent, now)
                 IN /\ calls' = [calls EXCEPT ![w] = [pc |-> "create_test_data", log |-> log]]
                    /\ op' = StmtOp("create_test_data.create", content_obj,
                                    [r EXCEPT !.ret = log])
        /\ UNCHANGED now

\* create_test_data: ActionLog.objects.filter(id=log.id).update(
\*     timestamp=timezone.now() - timedelta(...))
CmdUpdateTimestamp(w) ==
    \E ago \in 0..MaxAgo :
        /\ calls[w].pc = "create_test_data"
        /\ ~op.fault
        /\ logs' = [i \in 1..Len(logs) |->
                       IF logs[i].id = calls[w].log.id
                       THEN [logs[i] EXCEPT !.timestamp = now - ago]
                       ELSE logs[i]]
        /\ calls' = [calls EXCEPT ![w] = Idle]
        /\ op' = StmtOp("create_test_data.update", NoObj,
                        [raised |-> FALSE, ret |-> calls[w].log])
        /\ view' = NoView
        /\ UNCHANGED <<users, blogs, comments, profiles, maxPk, nextLogId, now>>

(***************************************************************************)
(* QuerySets of ActionLog and the read endpoints.  A read changes nothing  *)
(* but view, the response it produced.                                     *)
(***************************************************************************)
Min(a, b) == IF a <= b THEN a ELSE b

\* ActionLog.Meta.ordering = ['-timestamp']: the orders in which the database
\* may return the rows at the positions S.  Rows with equal timestamps come
\* in whatever order the database picks for that query.
OrderByTimestampDesc(rows, S) ==
    {o \in [1..Cardinality(S) -> S] :
        \A a, b \in 1..Cardinality(S) :
            a < b => o[a] # o[b] /\ rows[o[a]].timestamp >= rows[o[b]].timestamp}

\* The rows at the positions o, in that order.
Fetch(rows, o) == [k \in DOMAIN o |-> rows[o[k]]]

\* queryset[:limit]
Slice(seq, limit) == SubSeq(seq, 1, Min(limit, Len(seq)))

\* A filter that keeps the object_id and drops the content type.
FilterObjectId(rows, content_type, object_id) ==
    {i \in 1..Len(rows) : rows[i].object_id = object_id}

\* filter(content_type=..., object_id=...): the positions of the rows whose
\* target is that pair.
FilterTarget(rows, content_type, object_id) ==
    {i \in 1..Len(rows) :
        rows[i].content_type = content_type /\ rows[i].object_id = object_id}

\* A content type id that names no ContentType row, and the ids and object
\* ids a URL may carry.
UnknownType == "missing"
ContentTypeIds == Kinds \cup {UnknownType}
UrlObjectIds == {"1", "2", "abc"}

paginate_by_object_logs == 10
logs_limit == 10
LogsLimits == {1, logs_limit}
RecentLimits == {0, 1, 10}

Read(response) ==
    /\ view' = response
    /\ UNCHANGED <<users, blogs, comments, profiles, logs, maxPk, nextLogId, now, calls, op>>

\* content_type.get_object_for_this_type(id=object_id): the instance, NoObj
\* when the lookup raises (no such row, or an id that is no number).
GetObjectForThisType(s, content_type, object_id) ==
    IF StrPk(object_id) # NULL /\ Exists(s, Obj(content_type, StrPk(object_id)))
    THEN Obj(content_type, StrPk(object_id))
    ELSE NoObj

\* GET logs/object/<int:content_type_id>/<str:object_id>/ : get_queryset,
\* the first page of it, and get_context_data, whose ContentType lookup
\* stands outside the try block.
ObjectLogListView ==
    \E content_type_id \in ContentTypeIds, object_id \in UrlObjectIds :
        \E o \in OrderByTimestampDesc(logs, FilterTarget(logs, content_type_id, object_id)) :
            LET args == [content_type_id |-> content_type_id, object_id |-> object_id]
            IN Read(IF content_type_id \notin Kinds
                    THEN [name |-> "object_logs", args |-> args, status |-> "500",
                          queryset |-> <<>>, logs |-> <<>>, object |-> NoObj]
                    ELSE [name |-> "object_logs", args |-> args, status |-> "200",
                          queryset |-> Fetch(logs, o),
                          logs |-> Slice(Fetch(logs, o), paginate_by_object_logs),
                          object |-> GetObjectForThisType(Ctx(0), content_type_id, object_id)])

\* ObjectLogsMixin.get_context_data of a detail view whose get_object()
\* returned obj: context['object_logs'].
ObjectLogsMixin ==
    \E obj \in Instances, limit \in LogsLimits :
        \E o \in OrderByTimestampDesc(logs, FilterTarget(logs, obj.kind, PkStr(obj.pk))) :
            Read([name |-> "object_logs_mixin", obj |-> obj, limit |-> limit,
                  logs |-> Slice(Fetch(logs, o), limit)])

\* LoggedModel.get_action_logs(): self.action_logs.all()
GetActionLogs ==
    \E self \in {x \in Instances : x.kind \in LoggedKinds} :
        \E o \in OrderByTimestampDesc(logs, FilterTarget(logs, self.kind, PkStr(self.pk))) :
            Read([name |-> "get_action_logs", obj |-> self, logs |-> Fetch(logs, o)])

\* LoggedModel.get_recent_logs(limit): self.action_logs.all()[:limit]
GetRecentLogs ==
    \E self \in {x \in Instances : x.kind \in LoggedKinds}, limit \in RecentLimits :
        \E o \in OrderByTimestampDesc(logs, FilterTarget(logs, self.kind, PkStr(self.pk))) :
            Read([name |-> "get_recent_logs", obj |-> self, limit |-> limit,
                  logs |-> Slice(Fetch(logs, o), limit)])

\* A GET parameter that is absent, and the texts a date parameter may carry:
\* DateTexts[k] is the text of the instant k - 1, any other text is no date.
NoParam == "absent"
DateTexts == <<"t0", "t1", "t2">>
DateParams == {NoParam, "t0", "t1", "soon"}
IsDate(s) == \E k \in DOMAIN DateTexts : DateTexts[k] = s
ParseDate(s) == (CHOOSE k \in DOMAIN DateTexts : DateTexts[k] = s) - 1

\* if value: of a GET parameter
Given(param) == param \notin {NoParam, ""}

\* QueryFilterMixin.get_queryset with date_range_field = 'timestamp': the
\* positions kept by the __gte and __lte filters.
FilterDateRange(rows, start_date, end_date) ==
    {i \in 1..Len(rows) :
        /\ Given(start_date) => rows[i].timestamp >= ParseDate(start_date)
        /\ Given(end_date) => rows[i].timestamp <= ParseDate(end_date)}

\* A list view of ActionLog built on QueryFilterMixin, asked with start_date
\* and end_date.  A text that is no date makes the filter raise.
QueryFilterMixin ==
    \E start_date \in DateParams, end_date \in DateParams :
        LET malformed == \/ Given(start_date) /\ ~IsDate(start_date)
                         \/ Given(end_date) /\ ~IsDate(end_date)
        IN \E o \in OrderByTimestampDesc(logs,
                      IF malformed THEN {}
                      ELSE FilterDateRange(logs, start_date, end_date)) :
              Read([name |-> "query_filter", start_date |-> start_date,
                    end_date |-> end_date,
                    status |-> IF malformed THEN "500" ELSE "200",
                    logs |-> Fetch(logs, o)])

\* The list of all records, GET logs/ : the parameters a request may carry
\* and the page sizes (paginate_by of the view, and SmallPage to have several
\* pages over a small store).
paginate_by_log_list == 20
PageSizes == {SmallPage, paginate_by_log_list}
UserIdParams == {NoParam, "abc"}
ActionTypeParams == {NoParam, "update"}
PageParams == {NoParam, "2", "abc"}

\* ActionLogListView.get_queryset: the positions kept by the user__id and
\* action_type filters.
FilterList(rows, user_id, action_type) ==
    {i \in 1..Len(rows) :
        /\ Given(user_id) => rows[i].user = StrPk(user_id)
        /\ Given(action_type) => rows[i].action_type = action_type}

\* Paginator.num_pages with allow_empty_first_page
NumPages(count, per_page) ==
    IF count = 0 THEN 1 ELSE (count + per_page - 1) \div per_page

\* Paginator.page(number).object_list of the evaluated queryset
PageOf(seq, number, per_page) ==
    SubSeq(seq, (number - 1) * per_page + 1, Min(number * per_page, Len(seq)))

\* GET logs/?user_id=&action_type=&page= : get_queryset and
\* paginate_queryset.  view keeps the pages served for the same filter and
\* page size since the last write; each page is a query of its own.
ActionLogListView ==
    \E user_id \in UserIdParams, action_type \in ActionTypeParams,
       page \in PageParams, per_page \in PageSizes :
        LET malformed == Given(user_id) /\ StrPk(user_id) = NULL
            S == IF malformed THEN {} ELSE FilterList(logs, user_id, action_type)
            num_pages == NumPages(Cardinality(S), per_page)
            number == IF Given(page) THEN StrPk(page) ELSE 1
            status == IF malformed THEN "500"
                      ELSE IF number = NULL \/ number > num_pages THEN "404"
                      ELSE "200"
            same == /\ view.name = "log_list" /\ view.user_id = user_id
                    /\ view.action_type = action_type /\ view.per_page = per_page
            before == IF same THEN view.pages ELSE <<>>
        IN \E o \in OrderByTimestampDesc(logs, IF status = "200" THEN S ELSE {}) :
              Read([name |-> "log_list", user_id |-> user_id,
                    action_type |-> action_type, per_page |-> per_page,
                    page |-> page, status |-> status, num_pages |-> num_pages,
                    pages |-> IF status = "200"
                              THEN [k \in DOMAIN before \cup {number} |->
                                       IF k = number
                                       THEN PageOf(Fetch(logs, o), number, per_page)
                                       ELSE before[k]]
                              ELSE before])

\* ActionLog.objects.create(action_type=..., user=..., content_object=...)
CreateLog ==
    \E user \in {NULL} \cup users, action_type \in CallerActionTypes,
       content_object \in Instances :
        /\ Cardinality(CallerLogs) < MaxCallerLogs
        /\ \E r \in {ObjectsCreate(Ctx(0), action_type, user, content_object, CallerDesc,
                                   NoIp, "")} :
              /\ Commit(r)
              /\ op' = Op("objects.create", content_object, r,
                          Args(user, action_type, CallerDesc, NoIp, ""))

\* The store the read endpoints are checked over holds at most MaxQueryLogs
\* records.
QueryRoom == nextLogId <= MaxQueryLogs

NextQuery ==
    \/ QueryRoom /\ SaveUser(NoFaults)
    \/ QueryRoom /\ SaveBlog(NoFaults)
    \/ QueryRoom /\ DeleteUser(NoFaults)
    \/ QueryRoom /\ CreateLog
    \/ Tick
    \/ ObjectLogListView
    \/ ObjectLogsMixin
    \/ GetActionLogs
    \/ GetRecentLogs

\* The queries by target over a store filled by saves, deletions and explicit
\* records, the clock running.
SpecQuery == Init /\ [][NextQuery]_vars

NextFilter ==
    \/ QueryRoom /\ SaveUser(NoFaults)
    \/ QueryRoom /\ SaveBlog(NoFaults)
    \/ QueryRoom /\ DeleteUser(NoFaults)
    \/ QueryRoom /\ CreateLog
    \/ Tick
    \/ QueryFilterMixin

NextPair ==
    \/ SaveUser(NoFaults)
    \/ \E w \in Callers : ConcurrentLogActionCreate(w)
    \/ \E w \in Callers : LogActionSave(w)

\* log_action calls of several processes, statement by statement, with
\* users as targets.
SpecPair == Init /\ [][NextPair]_vars

(***************************************************************************)
(* admin.py: ActionLogAdmin.export_as_json.                                *)
(***************************************************************************)
JsonNull == "null"
NoDocument == <<>>

\* datetime.isoformat()
IsoFormat(ts) == DateTexts[ts + 1]

\* ContentType.model of a kind
ContentTypeModel(kind) ==
    CASE kind = UserKind -> "user"
      [] kind = BlogKind -> "blog"
      [] kind = CommentKind -> "comment"
      [] kind = ProfileKind -> "userprofile"

\* The entry export_as_json appends for a record.
ExportEntry(log) ==
    [id |-> PkStr(log.id),
     action_type |-> log.action_type,
     timestamp |-> IsoFormat(log.timestamp),
     user |-> IF log.user # NULL THEN Username(log.user) ELSE JsonNull,
     object_type |-> IF log.content_type # NoType
                     THEN ContentTypeModel(log.content_type) ELSE JsonNull,
     object_id |-> IF log.object_id # NoId THEN log.object_id ELSE JsonNull,
     description |-> log.description,
     ip_address |-> IF log.ip_address # NoIp THEN log.ip_address ELSE JsonNull]

\* An ordering of the selection by timestamp alone.
OrderByTimestampOnly(rows, S) == OrderByTimestampDesc(rows, S)

\* The queryset an admin action receives: the change list orders it by the
\* model's ordering made total with -pk.
AdminOrdering(rows, S) ==
    {o \in OrderByTimestampDesc(rows, S) :
        \A a, b \in DOMAIN o :
            (a < b /\ rows[o[a]].timestamp = rows[o[b]].timestamp)
                => rows[o[a]].id > rows[o[b]].id}

\* The action "export selected logs as JSON" on a non-empty selection.  view
\* keeps the document of the previous export of the same selection since
\* the last write.
ExportAsJson ==
    \E selected \in SUBSET {logs[i].id : i \in 1..Len(logs)} \ {{}} :
        \E o \in AdminOrdering(logs, {i \in 1..Len(logs) : logs[i].id \in selected}) :
            Read([name |-> "export", selected |-> selected,
                  document |-> [k \in DOMAIN o |-> ExportEntry(logs[o[k]])],
                  previous |-> IF view.name = "export" /\ view.selected = selected
                               THEN view.document ELSE NoDocument])

NextExport ==
    \/ QueryRoom /\ SaveUser(NoFaults)
    \/ QueryRoom /\ DeleteUser(NoFaults)
    \/ QueryRoom /\ CallLogAction(NoFaults)
    \/ Tick
    \/ ExportAsJson

\* Exports of selections of a store filled by saves and deletions of users
\* and by explicit log_action calls.
SpecExport == Init /\ [][NextExport]_vars

(***************************************************************************)
(* admin.py: what the admin site lets a staff user do to ActionLog rows.   *)
(* A request carries the user's is_superuser flag and model permissions;   *)
(* a view whose permission check fails raises PermissionDenied (403).      *)
(***************************************************************************)
DeletePerm == "action_logs.delete_actionlog"
Requests == [is_superuser : BOOLEAN, perms : SUBSET {DeletePerm}]

\* request.user.has_perm(perm)
HasPerm(request, perm) == request.is_superuser \/ perm \in request.perms

\* A delete permission granted to every staff user.
Admin_has_delete_permission_any(request) == TRUE

\* ActionLogAdmin.has_add_permission, has_change_permission,
\* has_delete_permission
Admin_has_add_permission(request) == FALSE
Admin_has_change_permission(request) == FALSE
Admin_has_delete_permission(request) == request.is_superuser

\* ActionLogInline: has_add_permission, has_change_permission, and the
\* formset's can_delete (the class attribute and the inherited
\* has_delete_permission).
Inline_has_add_permission(request) == FALSE
Inline_has_change_permission(request) == FALSE
Inline_can_delete(request) == FALSE /\ HasPerm(request, DeletePerm)

AdminOps == {"add", "change", "delete"}
AdminPermitted(request, what) ==
    CASE what = "add" -> Admin_has_add_permission(request)
      [] what = "change" -> Admin_has_change_permission(request)
      [] what = "delete" -> Admin_has_delete_permission(request)
InlinePermitted(request, what) ==
    CASE what = "add" -> Inline_has_add_permission(request)
      [] what = "change" -> Inline_has_change_permission(request)
      [] what = "delete" -> Inline_can_delete(request)

\* The rows after a form that adds a row, changes the row at position i or
\* deletes it was saved.
AdminApply(rows, what, i, action_type) ==
    CASE what = "add" ->
             Append(rows, ActionLogRow(nextLogId, action_type, NULL, NoObj, NoDesc,
                                       NoIp, "", now))
      [] what = "change" -> [rows EXCEPT ![i].action_type = action_type]
      [] what = "delete" -> SelectSeq(rows, LAMBDA row : row.id # rows[i].id)

\* A POST to a view of the admin site: site is "admin" for the add, change
\* and delete views of ActionLogAdmin, "inline" for the ActionLogInline
\* formset on the change form of a Blog, Comment or UserProfile.
AdminPost(site, permitted, request, what, i, action_type) ==
    /\ ~op.fault
    /\ nextLogId <= MaxLogId
    /\ logs' = IF permitted THEN AdminApply(logs, what, i, action_type) ELSE logs
    /\ nextLogId' = IF permitted /\ what = "add" THEN nextLogId + 1 ELSE nextLogId
    /\ view' = [name |-> site, what |-> what, request |-> request,
                status |-> IF permitted THEN "302" ELSE "403"]
    /\ op' = [name |-> "admin", obj |-> NoObj, created |-> FALSE, raised |-> ~permitted,
              fault |-> FALSE, args |-> NoArgs, ret |-> NoLog]
    /\ UNCHANGED <<users, blogs, comments, profiles, maxPk, now, calls>>

ActionLogAdmin ==
    \E request \in Requests, what \in AdminOps, i \in 1..Len(logs),
       action_type \in CallerActionTypes :
        AdminPost("admin", AdminPermitted(request, what), request, what, i, action_type)

ActionLogInline ==
    \E request \in Requests, what \in AdminOps, i \in 1..Len(logs),
       action_type \in CallerActionTypes :
        AdminPost("inline", InlinePermitted(request, what), request, what, i, action_type)

NextAdmin ==
    \/ QueryRoom /\ SaveUser(NoFaults)
    \/ Tick
    \/ ActionLogAdmin
    \/ ActionLogInline

\* Staff users working on the records through the admin site.
SpecAdmin == Init /\ [][NextAdmin]_vars

(***************************************************************************)
(* signals.py: register_model_signals(model_class).  The receiver it       *)
(* defines is connected with a weak reference and nothing else refers to   *)
(* it, so whether it is still connected when a save sends post_save        *)
(* depends on when the interpreter collects it.                            *)
(***************************************************************************)
MaxRegistered == 1
RegisteredKind == "article"
ActorAttrs == {"author", "user", "created_by"}

\* The instances of the registered model: a primary key and, for each of
\* the three attributes the instance has, its value (None or a stored user).
RegisteredInstances ==
    UNION {[kind : {RegisteredKind}, pk : 1..MaxRegistered,
            attrs : [A -> {NULL} \cup users]] : A \in SUBSET ActorAttrs}

HasAttr(instance, name) == name \in DOMAIN instance.attrs

\* A receiver that looks for the user attribute before the author attribute.
log_model_save_user_first(s, instance, created) ==
    LET action_type == IF created THEN "create" ELSE "update"
        user == IF HasAttr(instance, "user") THEN instance.attrs["user"]
                ELSE IF HasAttr(instance, "author") THEN instance.attrs["author"]
                ELSE IF HasAttr(instance, "created_by") THEN instance.attrs["created_by"]
                ELSE NULL
    IN ObjectsCreate(s, action_type, user, Obj(instance.kind, instance.pk),
                     Desc(Capitalize(action_type) \o " Article: ", PkStr(instance.pk)),
                     NoIp, "")

log_model_save(s, instance, created) ==
    LET action_type == IF created THEN "create" ELSE "update"
        user == IF HasAttr(instance, "author") THEN instance.attrs["author"]
                ELSE IF HasAttr(instance, "user") THEN instance.attrs["user"]
                ELSE IF HasAttr(instance, "created_by") THEN instance.attrs["created_by"]
                ELSE NULL
    IN ObjectsCreate(s, action_type, user, Obj(instance.kind, instance.pk),
                     Desc(Capitalize(action_type) \o " Article: ", PkStr(instance.pk)),
                     NoIp, "")

\* post_save of the registered model, after a save that inserted the row
\* (created) or updated it: the receiver runs when it is still connected.
RegisteredPostSave ==
    \E instance \in RegisteredInstances, created \in BOOLEAN, connected \in BOOLEAN :
        \E r \in {IF connected
                  THEN log_model_save([Ctx(0) EXCEPT !.created = created], instance, created)
                  ELSE [Ctx(0) EXCEPT !.created = created]} :
            /\ Commit(r)
            /\ op' = Op(IF connected THEN "log_model_save" ELSE "post_save",
                        instance, r, NoArgs)

NextHook ==
    \/ QueryRoom /\ SaveUser(NoFaults)
    \/ QueryRoom /\ RegisteredPostSave
    \/ Tick

\* Saves of a model registered with register_model_signals, among saves of
\* users.
SpecHook == Init /\ [][NextHook]_vars

(***************************************************************************)
(* mixins.py: ActionLoggingMixin.  A request carries its user (NULL for    *)
(* AnonymousUser) and the META entries the mixin reads.                    *)
(***************************************************************************)
\* The names Model.__init__ of ActionLog accepts as keyword arguments.
ActionLogFields ==
    {"id", "pk", "action_type", "timestamp", "user", "content_type", "object_id",
     "content_object", "description", "ip_address", "user_agent"}

\* HTTP_X_FORWARDED_FOR as the list of its comma-separated entries, <<>> for
\* a request without the header.
ForwardedFors == {<<>>, <<"10.0.0.1">>, <<"10.0.0.2", "10.0.0.1">>}
RemoteAddrs == {"127.0.0.1"}
UserAgents == {"Mozilla/5.0"}

MixinRequests ==
    [user : {NULL} \cup users, HTTP_X_FORWARDED_FOR : ForwardedFors,
     REMOTE_ADDR : RemoteAddrs, HTTP_USER_AGENT : UserAgents]

\* The views using the mixin: the two class attributes, and self.object
\* (NoObj for a view that has neither object nor get_object).
MixinViews ==
    [log_action : BOOLEAN, action_type : {"view"}, object : {NoObj} \cup Instances]

get_client_ip(request) ==
    IF request.HTTP_X_FORWARDED_FOR # <<>>
    THEN Head(request.HTTP_X_FORWARDED_FOR)
    ELSE request.REMOTE_ADDR

\* obj.__class__: the model class of an instance, which is not a row of
\* ContentType.
ModelClass(obj) == "class " \o obj.kind

\* The keyword arguments log_user_action passes to ActionLog.objects.create.
LogUserActionKwargs(self, request) ==
    LET obj == self.object
    IN [user |-> request.user,
        action_type |-> self.action_type,
        ip_address |-> get_client_ip(request),
        user_agent |-> request.HTTP_USER_AGENT,
        object_id |-> IF obj # NoObj THEN PkStr(obj.pk) ELSE NoId,
        content_type |-> IF obj # NoObj THEN ModelClass(obj) ELSE NoType,
        additional_data |-> "get_log_data"]

\* Model.__init__(**kwargs) raises ValueError when a foreign key is given a
\* value that is not an instance of its model, and TypeError for a keyword
\* that names no field or property.
InitRaises(kwargs) ==
    \/ kwargs.content_type \notin Kinds \cup {NoType}
    \/ ~(DOMAIN kwargs \subseteq ActionLogFields)

\* log_user_action: everything inside try / except Exception, the exception
\* written to the logger and dropped.
log_user_action(s, self, request) ==
    LET kwargs == LogUserActionKwargs(self, request)
    IN IF InitRaises(kwargs) THEN s
       ELSE ObjectsCreate(s, kwargs.action_type, kwargs.user,
                          Obj(kwargs.content_type, StrPk(kwargs.object_id)), NoDesc,
                          kwargs.ip_address, kwargs.user_agent)

\* dispatch: the response of the view, then the record for an authenticated
\* user when log_action is set.
Dispatch ==
    \E self \in MixinViews, request \in MixinRequests :
        \E r \in {IF self.log_action /\ request.user # NULL
                  THEN log_user_action(Ctx(0), self, request)
                  ELSE Ctx(0)} :
            /\ ~op.fault
            /\ r.nextLogId <= MaxLogId + 1
            /\ logs' = r.logs
            /\ nextLogId' = r.nextLogId
            /\ view' = [name |-> "dispatch", self |-> self, request |-> request,
                        status |-> "200"]
            /\ op' = Op("dispatch", self.object, r, NoArgs)
            /\ UNCHANGED <<users, blogs, comments, profiles, maxPk, now, calls>>

NextMixin ==
    \/ QueryRoom /\ SaveUser(NoFaults)
    \/ Tick
    \/ Dispatch

\* Requests to a view that uses ActionLoggingMixin, among saves of users.
SpecMixin == Init /\ [][NextMixin]_vars

\* A store that holds one user and no record: the user was saved, and the
\* records were deleted (ActionLog.objects.all().delete()) before the first
\* blog is written.
InitTitle ==
    /\ users = {1}
    /\ blogs = EmptyTable
    /\ comments = EmptyTable
    /\ profiles = EmptyTable
    /\ logs = <<>>
    /\ maxPk = [k \in Kinds |-> IF k = UserKind THEN 1 ELSE 0]
    /\ nextLogId = 1
    /\ now = 0
    /\ calls = [w \in Callers |-> Idle]
    /\ view = NoView
    /\ op = [name |-> "purge", obj |-> NoObj, created |-> FALSE, raised |-> FALSE,
             fault |-> FALSE, args |-> NoArgs, ret |-> NoLog]

NextTitle ==
    \/ SaveBlog(NoFaults)
    \/ DeleteBlog(NoFaults)
    \/ Tick

\* Blogs written and deleted by one user, titles free to repeat, the clock
\* running.
SpecTitle == InitTitle /\ [][NextTitle]_vars

NextCreate ==
    \/ SaveUser(NoFaults)
    \/ SaveBlog(NoFaults)
    \/ SaveComment(NoFaults)
    \/ SaveProfile(NoFaults)
    \/ DeleteUser(NoFaults)
    \/ DeleteBlog(NoFaults)
    \/ DeleteLogs
    \/ CreateLog

\* Records created with content_object set to an instance of any kind.
SpecCreate == Init /\ [][NextCreate]_vars

NextPage ==
    \/ QueryRoom /\ SaveUser(NoFaults)
    \/ Tick
    \/ ActionLogListView

\* The paginated list of all records over a store filled by saves of users.
SpecPage == Init /\ [][NextPage]_vars

\* The date-range filter over the same store.
SpecFilter == Init /\ [][NextFilter]_vars

(***************************************************************************)
(* EnhancedPaginationMixin.get_paginate_by.  A parameter text is the       *)
(* sequence of its characters.                                             *)
(***************************************************************************)
max_per_page == 100
paginate_by == 10
PaginateBys == {paginate_by, paginate_by_log_list}
NoPagination == "None"

IsDigit(c) == c = "0" \/ StrPk(c) # NULL
DigitVal(c) == IF c = "0" THEN 0 ELSE StrPk(c)
Unsigned(text) == IF text # <<>> /\ text[1] \in {"-", "+"} THEN Tail(text) ELSE text

\* int(text) succeeds: an optional sign and at least one digit.
IsInt(text) ==
    Unsigned(text) # <<>> /\ \A k \in DOMAIN Unsigned(text) : IsDigit(Unsigned(text)[k])

RECURSIVE DigitsVal(_)
DigitsVal(ds) ==
    IF ds = <<>> THEN 0
    ELSE 10 * DigitsVal(SubSeq(ds, 1, Len(ds) - 1)) + DigitVal(ds[Len(ds)])

\* int(text) of a text for which it succeeds.
IntOf(text) ==
    IF text[1] = "-" THEN 0 - DigitsVal(Unsigned(text)) ELSE DigitsVal(Unsigned(text))

\* The values of ?per_page= : absent, or a text.
NoPerPage == [given |-> FALSE, text |-> <<>>]
PerPage(text) == [given |-> TRUE, text |-> text]
PerPageParams ==
    {NoPerPage} \cup
    {PerPage(text) : text \in {<<>>, <<"a", "b", "c">>, <<"2", ".", "5">>, <<"-">>,
                               <<"0">>, <<"-", "1">>, <<"-", "5">>, <<"1">>, <<"+", "5">>,
                               <<"1", "0">>, <<"2", "5">>, <<"1", "0", "0">>,
                               <<"1", "0", "1">>, <<"1", "0", "0", "0">>}}
ShowParams == {NoParam, "all"}

\* get_paginate_by of a view with the class attributes allow_all and
\* paginate_by_, for a request with ?show= and ?per_page= .
GetPaginateByOf(allow_all, paginate_by_, show, per_page) ==
    IF allow_all /\ show = "all" THEN NoPagination
    ELSE IF ~per_page.given THEN Min(paginate_by_, max_per_page)
    ELSE IF IsInt(per_page.text) THEN Min(IntOf(per_page.text), max_per_page)
    ELSE paginate_by_

InitPaginate ==
    /\ users = {} /\ blogs = EmptyTable /\ comments = EmptyTable /\ profiles = EmptyTable
    /\ logs = <<>> /\ maxPk = [k \in Kinds |-> 0] /\ nextLogId = 1 /\ now = 0
    /\ calls = [w \in Callers |-> Idle]
    /\ op = [name |-> "init", obj |-> NoObj, created |-> FALSE, raised |-> FALSE,
             fault |-> FALSE, args |-> NoArgs, ret |-> NoLog]
    /\ \E allow_all \in BOOLEAN, paginate_by_ \in PaginateBys,
          show \in ShowParams, per_page \in PerPageParams :
            view = [name |-> "request", allow_all |-> allow_all,
                    paginate_by |-> paginate_by_, show |-> show, per_page |-> per_page]

GetPaginateBy ==
    /\ view.name = "request"
    /\ Read([name |-> "get_paginate_by", allow_all |-> view.allow_all,
              paginate_by |-> view.paginate_by, show |-> view.show,
              per_page |-> view.per_page,
              ret |-> GetPaginateByOf(view.allow_all, view.paginate_by, view.show,
                                      view.per_page)])

\* get_paginate_by applied to every request and class configuration drawn.
SpecPaginate == InitPaginate /\ [][GetPaginateBy]_vars

Next ==
    \/ SaveUser(NoFaults)
    \/ SaveBlog(NoFaults)
    \/ SaveComment(NoFaults)
    \/ SaveProfile(NoFaults)
    \/ DeleteBlog(NoFaults)
    \/ DeleteComment(NoFaults)
    \/ DeleteProfile(NoFaults)
    \/ DeleteUser(NoFaults)
    \/ DeleteQuerySet(NoFaults)
    \/ DeleteLogs
    \/ CallLogAction(NoFaults)
    \/ CallLoggedModelLogAction(NoFaults)

\* The operations of the program, every statement succeeding, the clock
\* standing still.
Spec == Init /\ [][Next]_vars

NextStmt ==
    \/ SaveUser(NoFaults)
    \/ SaveBlog(NoFaults)
    \/ DeleteUser(NoFaults)
    \/ DeleteLogs
    \/ Tick
    \/ \E w \in Workers : LogActionCreate(w)
    \/ \E w \in Workers : LogActionSave(w)
    \/ \E w \in Workers : CmdCreateLog(w)
    \/ \E w \in Workers : CmdUpdateTimestamp(w)

\* log_action and the log loop of create_test_data interleaved, statement
\* by statement, with saves, deletions and the clock.
SpecStmt == Init /\ [][NextStmt]_vars

NextFault ==
    \/ SaveUser(Faults)
    \/ SaveBlog(Faults)
    \/ SaveComment(Faults)
    \/ SaveProfile(Faults)
    \/ DeleteBlog(Faults)
    \/ DeleteComment(Faults)
    \/ DeleteProfile(Faults)
    \/ DeleteUser(Faults)
    \/ DeleteQuerySet(Faults)

\* The lifecycle operations when an ActionLog statement may fail: a
\* behaviour runs until the first operation in which one did.
SpecFault == Init /\ [][NextFault]_vars

(***************************************************************************)
(* The audit contract, stated over one step: the tables before it, the     *)
(* tables after it, and the records it appended.                           *)
(***************************************************************************)
Db == [users |-> users, blogs |-> blogs, comments |-> comments, profiles |-> profiles]
After == [users |-> users', blogs |-> blogs', comments |-> comments', profiles |-> profiles']

\* The positions in logs' of the records the step appended, and those of
\* them with a given action type.
Appended == {j \in 1..Len(logs') : logs'[j].id >= nextLogId}
AppendedOf(action_type) == {j \in Appended : logs'[j].action_type = action_type}

\* The instances of a kind the step deleted.
Gone(kind) ==
    {pk \in Pks(kind) : Exists(Db, Obj(kind, pk)) /\ ~Exists(After, Obj(kind, pk))}

\* The records of the store that target obj, by position.
RecordsOf(obj) == {i \in 1..Len(logs) : TargetsObj(logs[i], obj)}

Saved == op.name = "save" /\ ~op.raised
Deleted == op.name \in {"delete", "qs_delete"} /\ ~op.raised

\* C1: the save that first persists a new entity E (of any Loggable kind)
\* appends exactly one record with action_type 'create', counting the
\* records of the save() override and of the post_save receivers, and that
\* record's target resolves to E.
C1_CreateExactlyOnce ==
    [][(Saved' /\ op'.created)
          => /\ Cardinality(AppendedOf("create")) = 1
             /\ \A j \in AppendedOf("create") :
                   ContentObject(After, logs'[j]) = op'.obj]_vars

\* A first save of a UserProfile after which two 'create' records target it.
C1_TwoCreates ==
    /\ Saved /\ op.created /\ op.obj.kind = ProfileKind
    /\ Cardinality({i \in RecordsOf(op.obj) : logs[i].action_type = "create"}) = 2

\* C2: each save of an already-persisted entity E (of any Loggable kind)
\* appends exactly one record with action_type 'update', counting the
\* records of the save() override and of the post_save receivers.
C2_UpdateExactlyOnce ==
    [][(Saved' /\ ~op'.created) => Cardinality(AppendedOf("update")) = 1]_vars

\* A save of a stored Blog after which two 'update' records target it.
C2_TwoUpdates ==
    /\ Saved /\ ~op.created /\ op.obj.kind = BlogKind
    /\ Cardinality({i \in RecordsOf(op.obj) : logs[i].action_type = "update"}) = 2

\* C3: deleting a persisted Blog, Comment or UserProfile, by instance
\* delete(), queryset delete or cascade, leaves exactly one new record with
\* action_type 'delete' per deleted entity, and the record of a deleted blog
\* carries the blog's title in its description.
C3_DeleteExactlyOnce ==
    [][Deleted'
          => /\ Cardinality(AppendedOf("delete")) =
                   Cardinality(Gone(BlogKind)) + Cardinality(Gone(CommentKind))
                   + Cardinality(Gone(ProfileKind))
             /\ \A b \in Gone(BlogKind) :
                   \E j \in AppendedOf("delete") :
                       logs'[j].description.name = blogs[b].title]_vars

\* A UserProfile was deleted and the store holds no 'delete' record at all.
C3_ProfileDeletedUnlogged ==
    /\ Deleted /\ op.name = "delete" /\ op.obj.kind = ProfileKind
    /\ ~Exists(Db, op.obj)
    /\ logs # <<>>
    /\ \A i \in 1..Len(logs) : logs[i].action_type # "delete"

\* C4: a record is never removed because its target is deleted: after a
\* Blog, Comment or UserProfile is deleted, every record that targeted it
\* before still exists, and reading its target yields None.
C4_RecordsOutliveTarget ==
    [][Deleted'
          => \A i \in 1..Len(logs) :
                (\E kind \in LoggedKinds : \E pk \in Gone(kind) :
                     TargetsObj(logs[i], Obj(kind, pk)))
                => \E j \in 1..Len(logs') :
                      /\ logs'[j].id = logs[i].id
                      /\ ContentObject(After, logs'[j]) = NoObj]_vars

\* A blog that had been saved was deleted, and no record targets it.
C4_TargetRecordsGone ==
    /\ Deleted /\ op.obj.kind = BlogKind /\ op.obj.pk # NULL
    /\ ~Exists(Db, op.obj)
    /\ RecordsOf(op.obj) = {}

\* C5: deleting a User never removes a record: every record whose actor was
\* that user still exists afterwards with actor = None, and no record of
\* the store names the deleted user as actor, the records appended by the
\* hooks that ran during the deletion included.
C5_RecordsOutliveActor ==
    [][Deleted'
          => \A u \in users \ users' :
                /\ \A i \in 1..Len(logs) :
                      logs[i].user = u
                      => \E j \in 1..Len(logs') :
                            logs'[j].id = logs[i].id /\ logs'[j].user = NULL
                /\ \A j \in 1..Len(logs') : logs'[j].user # u]_vars

\* A user was deleted and a record of the store still names it as actor.
C5_DanglingActor ==
    /\ Deleted /\ op.obj.kind = UserKind
    /\ \E i \in 1..Len(logs) : logs[i].user # NULL /\ logs[i].user \notin users

\* C6: once a record is in the store, no operation changes its action_type,
\* timestamp, description, target, ip_address or user_agent; the only
\* change ever made to it is clearing its actor when that user is deleted.
C6_RecordsImmutable ==
    [][\A i \in 1..Len(logs) : \A j \in 1..Len(logs') :
          logs'[j].id = logs[i].id
          => /\ [logs'[j] EXCEPT !.user = NULL] = [logs[i] EXCEPT !.user = NULL]
             /\ logs'[j].user # logs[i].user
                => logs'[j].user = NULL /\ logs[i].user \in users \ users']_vars

\* create_test_data has dated back a record it had inserted before.
C6_TimestampRewritten ==
    /\ op.name = "create_test_data.update"
    /\ \E i \in 1..Len(logs) :
          logs[i].id = op.ret.id /\ logs[i].timestamp < op.ret.timestamp

\* C7: each call of ActionLog.log_action, directly or through
\* LoggedModel.log_action, with or without a target, adds exactly one record
\* to the store: the one returned, carrying the given actor, action type,
\* description, ip_address and target; no other record is added, changed or
\* removed.
C7_LogActionAppendsOne ==
    [][(op'.name \in {"log_action", "model_log_action"})
          => /\ Len(logs') = Len(logs) + 1
             /\ \A i \in 1..Len(logs) : logs'[i] = logs[i]
             /\ logs'[Len(logs')] = op'.ret
             /\ op'.ret.id = nextLogId
             /\ op'.ret.user = op'.args.user
             /\ op'.ret.action_type = op'.args.action_type
             /\ op'.ret.description = op'.args.description
             /\ op'.ret.ip_address = op'.args.ip_address
             /\ IF op'.obj = NoObj
                THEN op'.ret.content_type = NoType /\ op'.ret.object_id = NoId
                ELSE /\ TargetsObj(op'.ret, op'.obj)
                     /\ ContentObject(After, op'.ret) = op'.obj]_vars

\* A log_action call with a target returned, the store holding other records.
C7_CalledWithTarget ==
    /\ op.name \in {"log_action", "model_log_action"}
    /\ op.obj # NoObj /\ op.args.user # NULL /\ ~op.raised
    /\ Len(logs) >= 2
    /\ logs[Len(logs)] = op.ret

\* C8: when appending a record fails inside a lifecycle hook (a save() or
\* delete() override, a post_save or post_delete receiver), the failure
\* does not reach the caller of the entity mutation, and the save or the
\* delete still takes effect.
C8_LoggingFailureContained ==
    op.fault
    => /\ ~op.raised
       /\ op.name = "save" => Exists(Db, op.obj)
       /\ op.name = "delete" => ~Exists(Db, op.obj)

\* blog.delete() raised because a record could not be appended, and the
\* blog is still stored.
C8_DeleteAborted ==
    /\ op.name = "delete" /\ op.obj.kind = BlogKind
    /\ op.fault /\ op.raised
    /\ Exists(Db, op.obj)

\* C9: a record is appended only after, or atomically with, the mutation it
\* describes: a step never leaves a new 'create' or 'update' record whose
\* target is not stored, nor a new 'delete' record whose target still is,
\* the steps in which the mutation fails included.
C9_RecordFollowsMutation ==
    [][\A j \in Appended :
          logs'[j].content_type # NoType
          => /\ logs'[j].action_type \in {"create", "update"}
                => ContentObject(After, logs'[j]) # NoObj
             /\ logs'[j].action_type = "delete"
                => ContentObject(After, logs'[j]) = NoObj]_vars

\* blog.delete() failed and the store holds a 'delete' record whose target
\* is the blog, still stored.
C9_DeleteLoggedNotDone ==
    /\ op.name = "delete" /\ op.obj.kind = BlogKind /\ op.raised
    /\ \E i \in RecordsOf(op.obj) :
          logs[i].action_type = "delete" /\ ContentObject(Db, logs[i]) = op.obj

\* C10: over the saves of one entity identity, the save that first persists
\* it emits 'create' and no 'update', and every later save emits 'update'
\* and no 'create', also when the caller assigned the primary key before
\* the first save.
C10_CreateThenUpdates ==
    [][Saved'
          => IF op'.created
             THEN AppendedOf("create") # {} /\ AppendedOf("update") = {}
             ELSE AppendedOf("update") # {} /\ AppendedOf("create") = {}]_vars

\* The first save of a Blog after which the only record that targets it is
\* an 'update'.
C10_FirstSaveLoggedAsUpdate ==
    /\ Saved /\ op.created /\ op.obj.kind = BlogKind
    /\ RecordsOf(op.obj) # {}
    /\ \A i \in RecordsOf(op.obj) : logs[i].action_type = "update"

(***************************************************************************)
(* The read endpoints.                                                     *)
(***************************************************************************)
\* The rows of a result, the stored rows, and the stored rows whose target
\* is the pair (content_type, object_id).
Rows(seq) == {seq[k] : k \in DOMAIN seq}
Stored == Rows(logs)
StoredFor(content_type, object_id) ==
    {l \in Stored : l.content_type = content_type /\ l.object_id = object_id}
NoRowTwice(seq) == \A a, b \in DOMAIN seq : seq[a] = seq[b] => a = b
Exactly(seq, rows) == Rows(seq) = rows /\ NoRowTwice(seq)

\* C11: the queryset of ObjectLogListView for (content_type_id, object_id)
\* and LoggedModel.action_logs of an entity hold exactly the stored records
\* with that content type and that object id, each once, and never a record
\* of another kind with the same raw id; ObjectLogsMixin returns records of
\* that pair only, each once, and the first logs_limit of them rather than
\* all.
C11_QueryByTargetExact ==
    /\ view.name = "object_logs" /\ view.status = "200"
         => Exactly(view.queryset,
                    StoredFor(view.args.content_type_id, view.args.object_id))
    /\ view.name = "get_action_logs"
         => Exactly(view.logs, StoredFor(view.obj.kind, PkStr(view.obj.pk)))
    /\ view.name = "object_logs_mixin"
         => /\ Rows(view.logs) \subseteq StoredFor(view.obj.kind, PkStr(view.obj.pk))
            /\ NoRowTwice(view.logs)
            /\ Len(view.logs)
                 = Min(view.limit,
                       Cardinality(StoredFor(view.obj.kind, PkStr(view.obj.pk))))

\* A query by (kind, id) answered from a store that also holds a record of
\* another kind with the same raw id.
C11_SameIdOtherKind ==
    /\ view.name = "object_logs" /\ view.status = "200"
    /\ view.queryset # <<>>
    /\ \E l \in Stored : /\ l.object_id = view.args.object_id
                          /\ l.content_type \notin {view.args.content_type_id, NoType}

\* C11 as stated: all three access paths return exactly the matching records.
C11_AllPathsExact ==
    /\ view.name = "object_logs" /\ view.status = "200"
         => Exactly(view.queryset,
                    StoredFor(view.args.content_type_id, view.args.object_id))
    /\ view.name \in {"get_action_logs", "object_logs_mixin"}
         => Exactly(view.logs, StoredFor(view.obj.kind, PkStr(view.obj.pk)))

\* A request with both a start_date and an end_date that are dates.
DateRangeAsked ==
    /\ view.name = "query_filter" /\ view.status = "200"
    /\ Given(view.start_date) /\ Given(view.end_date)

\* C12: a query with start_date = t0 and end_date = t1 returns exactly the
\* stored records with t0 <= timestamp < t1; a record whose timestamp is t1
\* is not returned.
C12_HalfOpenDateRange ==
    DateRangeAsked
        => Exactly(view.logs,
                   {l \in Stored : /\ ParseDate(view.start_date) <= l.timestamp
                                    /\ l.timestamp < ParseDate(view.end_date)})

\* A date-range query with t0 < t1 that returned a record stamped t1.
C12_EndInstantReturned ==
    /\ DateRangeAsked
    /\ ParseDate(view.start_date) < ParseDate(view.end_date)
    /\ \E l \in Rows(view.logs) : l.timestamp = ParseDate(view.end_date)

\* Every page of one listing has been served since the last write.
AllPagesServed ==
    /\ view.name = "log_list"
    /\ DOMAIN view.pages = 1..view.num_pages

\* The stored records a listing with the given filter parameters is about.
Listed(user_id, action_type) ==
    {l \in Stored : /\ (Given(user_id) => l.user = StrPk(user_id))
                     /\ (Given(action_type) => l.action_type = action_type)}

\* C13: with no write in between, the pages 1..n of the record listing are
\* pairwise disjoint, together they hold exactly the filtered records, and
\* read page after page the records come in descending timestamp order, also
\* when several records have equal timestamps.
C13_PagesPartitionResult ==
    AllPagesServed
        => /\ \A a, b \in DOMAIN view.pages :
                 a # b => Rows(view.pages[a]) \cap Rows(view.pages[b]) = {}
           /\ \A a \in DOMAIN view.pages : NoRowTwice(view.pages[a])
           /\ UNION {Rows(view.pages[a]) : a \in DOMAIN view.pages}
                = Listed(view.user_id, view.action_type)
           /\ \A a, b \in DOMAIN view.pages :
                 \A x \in Rows(view.pages[a]), y \in Rows(view.pages[b]) :
                    a < b => x.timestamp >= y.timestamp

\* A listing of several pages, all served with no write in between, in which
\* one record is on two pages (and so another on none).
C13_RecordOnTwoPages ==
    /\ AllPagesServed
    /\ view.num_pages >= 2
    /\ \E a, b \in DOMAIN view.pages :
          a # b /\ Rows(view.pages[a]) \cap Rows(view.pages[b]) # {}

\* A history query for one entity with a limit of at least one, asked right
\* after the last write emitted a record for that entity.
RecentAskedAfterEmit ==
    /\ view.name \in {"get_recent_logs", "object_logs_mixin"}
    /\ view.limit >= 1
    /\ op.name \in {"save", "objects.create"} /\ ~op.raised
    /\ logs # <<>>
    /\ TargetsObj(logs[Len(logs)], view.obj)
    /\ \A l \in Stored : l.id <= logs[Len(logs)].id

\* C14: a history query for one entity E with a limit returns at most limit
\* records, all with target E, most recent first, none older than a record
\* of E it leaves out; and right after a record is emitted for E that record
\* is the first one returned.
C14_RecentLogsNewestFirst ==
    /\ view.name \in {"get_recent_logs", "object_logs_mixin"}
         => /\ Len(view.logs) <= view.limit
            /\ NoRowTwice(view.logs)
            /\ Rows(view.logs) \subseteq StoredFor(view.obj.kind, PkStr(view.obj.pk))
            /\ \A a, b \in DOMAIN view.logs :
                  a < b => view.logs[a].timestamp >= view.logs[b].timestamp
            /\ \A x \in Rows(view.logs) :
                  \A y \in StoredFor(view.obj.kind, PkStr(view.obj.pk)) \ Rows(view.logs) :
                     x.timestamp >= y.timestamp
    /\ RecentAskedAfterEmit => view.logs[1] = logs[Len(logs)]

\* A history query asked right after a record was emitted for the entity, in
\* which an earlier record with the same timestamp comes first.
C14_JustEmittedNotFirst ==
    /\ RecentAskedAfterEmit
    /\ view.logs[1] # logs[Len(logs)]
    /\ view.logs[1].timestamp = logs[Len(logs)].timestamp

\* C15: when log_action calls with different targets run concurrently,
\* whatever the order of their steps, the save that ends a call leaves that
\* call's record stored with its own target and every other record as it
\* was, and the record is returned by the (kind, id) query of its own target
\* and of no other.
C15_ConcurrentCallsKeepTargets ==
    [][\A w \in Callers :
          (calls[w].pc = "log_action" /\ calls'[w].pc = "idle" /\ ~op'.raised)
              => LET log == calls[w].log
                 IN /\ log.content_type # NoType /\ log.object_id # NoId
                    /\ \E j \in 1..Len(logs') : logs'[j] = log
                    /\ Len(logs') = Len(logs)
                    /\ \A i \in 1..Len(logs) :
                          logs[i].id # log.id => logs'[i] = logs[i]
                    /\ \A kind \in Kinds : \A pk \in Pks(kind) :
                          (\E j \in 1..Len(logs') :
                              /\ logs'[j].id = log.id
                              /\ logs'[j].content_type = kind
                              /\ logs'[j].object_id = PkStr(pk))
                          <=> (kind = log.content_type /\ PkStr(pk) = log.object_id)]_vars

\* One call has just saved its record while another call, entered before
\* that save and aimed at a different target, is still between its two
\* statements.
C15_SavedWhileOtherMidCall ==
    /\ op.name = "log_action.save" /\ ~op.raised
    /\ \E w \in Callers : \E l \in Stored :
          /\ calls[w].pc = "log_action"
          /\ l.description = CallerDesc
          /\ l.id # calls[w].log.id
          /\ l.content_type # NoType
          /\ <<l.content_type, l.object_id>>
               # <<calls[w].log.content_type, calls[w].log.object_id>>

\* The pair a per-entity history request names has no live referent: the
\* content type id is unknown, the object id is no number, or no instance
\* of that kind has that id.
NoReferent(args) ==
    \/ args.content_type_id \notin Kinds
    \/ StrPk(args.object_id) = NULL
    \/ ~Exists(Db, Obj(args.content_type_id, StrPk(args.object_id)))

\* C16: the per-entity history endpoint never raises; when the kind id is
\* unknown, the object id is malformed or the referent is gone, it answers
\* with an empty object and the matching records.
C16_ObjectLogsNeverRaise ==
    view.name = "object_logs"
        => /\ view.status = "200"
           /\ NoReferent(view.args) => view.object = NoObj
           /\ Exactly(view.queryset,
                      StoredFor(view.args.content_type_id, view.args.object_id))

\* A per-entity history request with a content type id that names no
\* ContentType, answered with a server error.
C16_UnknownKindRaises ==
    /\ view.name = "object_logs"
    /\ view.args.content_type_id \notin Kinds
    /\ view.status = "500"

\* C19: exporting the same selection twice with no write in between yields
\* identical documents; a document has exactly one entry per selected record,
\* with 'user' null exactly for the records without actor and 'object_type'
\* null exactly for the records without target.
C19_ExportRepeatable ==
    view.name = "export"
        => /\ view.previous # NoDocument => view.document = view.previous
           /\ Len(view.document) = Cardinality(view.selected)
           /\ \A l \in Stored :
                 l.id \in view.selected
                    => \E k \in DOMAIN view.document :
                          /\ view.document[k].id = PkStr(l.id)
                          /\ view.document[k].user = JsonNull <=> l.user = NULL
                          /\ view.document[k].object_type = JsonNull
                                <=> l.content_type = NoType

\* A second export of a selection that holds two records with the same
\* timestamp, one of them without actor and without target.
C19_ExportedTwiceWithTies ==
    /\ view.name = "export"
    /\ view.previous # NoDocument
    /\ \E a, b \in DOMAIN view.document :
          /\ a # b
          /\ view.document[a].timestamp = view.document[b].timestamp
          /\ view.document[a].user = JsonNull
          /\ view.document[a].object_type = JsonNull

\* The last write was ActionLog.objects.create(..., content_object=E), and
\* the record it inserted is the last of the store.
CreatedWithContentObject ==
    /\ op.name = "objects.create" /\ ~op.raised
    /\ logs # <<>>
    /\ logs[Len(logs)].id = nextLogId - 1

\* C20: a record created with content_object = E stores the kind of E as
\* content_type and the text of E's id as object_id, and its content_object
\* is E; content_object of every stored record whose pair names an existing
\* entity is that entity.
C20_ContentObjectRoundTrip ==
    /\ op.name = "objects.create" /\ ~op.raised
         => /\ CreatedWithContentObject
            /\ logs[Len(logs)].content_type = op.obj.kind
            /\ logs[Len(logs)].object_id = PkStr(op.obj.pk)
            /\ Exists(Db, op.obj) => ContentObject(Db, logs[Len(logs)]) = op.obj
    /\ \A l \in Stored : \A E \in Instances :
          (l.content_type = E.kind /\ l.object_id = PkStr(E.pk))
              => ContentObject(Db, l) = E

\* A record just created with content_object = a stored Comment.
C20_CreatedForComment ==
    /\ CreatedWithContentObject
    /\ op.obj.kind = CommentKind
    /\ Exists(Db, op.obj)
    /\ ContentObject(Db, logs[Len(logs)]) = op.obj

\* C17: a request to the record list whose page parameter is no number, or
\* whose user_id filter value is no number, is answered with status 200 and
\* page 1 of the results.
C17_MalformedParamsServed ==
    /\ view.name = "log_list"
    /\ \/ Given(view.page) /\ StrPk(view.page) = NULL
       \/ Given(view.user_id) /\ StrPk(view.user_id) = NULL
    => view.status = "200" /\ 1 \in DOMAIN view.pages

\* A request for page=abc of the unfiltered list answered with Not Found.
C17_MalformedPageNotFound ==
    /\ view.name = "log_list"
    /\ view.page = "abc" /\ ~Given(view.user_id)
    /\ view.status = "404"

\* get_paginate_by returned a page size (the request is not show=all on a
\* view that allows it).
PageSizeReturned ==
    /\ view.name = "get_paginate_by"
    /\ ~(view.allow_all /\ view.show = "all")

\* C18: for every value of ?per_page= get_paginate_by returns an integer in
\* 1..max_per_page, and it returns paginate_by when the parameter is absent
\* or is no integer.
C18_PerPageInRange ==
    PageSizeReturned
        => /\ view.ret \in 1..max_per_page
           /\ ~view.per_page.given \/ ~IsInt(view.per_page.text)
                => view.ret = view.paginate_by

\* A request whose per_page is an integer below one, returned as the page
\* size.
C18_PageSizeBelowOne ==
    /\ PageSizeReturned
    /\ view.per_page.given /\ IsInt(view.per_page.text)
    /\ view.ret < 1

\* The records of the store with target obj, and those of them that were
\* logged explicitly against it by a caller.
HistoryOf(obj) == StoredFor(obj.kind, PkStr(obj.pk))
ExplicitOf(obj) == {l \in HistoryOf(obj) : l.description = CallerDesc}

\* The history of a Blog is asked for, and no save of the Blog after the one
\* that created it has logged anything.
HistoryOfCreatedBlogAsked ==
    /\ view.name = "get_action_logs"
    /\ view.obj.kind = BlogKind
    /\ \A l \in HistoryOf(view.obj) \ ExplicitOf(view.obj) : l.action_type = "create"

\* C21: after a Blog is created and k records are then logged with it as
\* target, its history (get_action_logs) holds exactly those k records.
C21_HistoryIsExplicitLogs ==
    HistoryOfCreatedBlogAsked => Exactly(view.logs, ExplicitOf(view.obj))

\* The history of a created Blog with one record logged against it, which
\* also returns the 'create' record written by the save that created it.
C21_CreateRecordInHistory ==
    /\ HistoryOfCreatedBlogAsked
    /\ ExplicitOf(view.obj) # {}
    /\ \E l \in Rows(view.logs) :
          l.action_type = "create" /\ l.description.tmpl = "Created blog: "

\* C22: every save of a User appends exactly one record, whose actor and
\* target are both that user, with action_type 'create' when the save
\* created the user and 'update' otherwise; after the save that created a
\* user every record with that actor, the newest included, is a 'create'.
C22_UserSaveLogsOnce ==
    [][(Saved' /\ op'.obj.kind = UserKind)
          => /\ Cardinality(Appended) = 1
             /\ \A j \in Appended :
                   /\ logs'[j].user = op'.obj.pk
                   /\ TargetsObj(logs'[j], op'.obj)
                   /\ logs'[j].action_type
                        = IF op'.created THEN "create" ELSE "update"
             /\ op'.created
                  => \A j \in 1..Len(logs') :
                        logs'[j].user = op'.obj.pk => logs'[j].action_type = "create"]_vars

\* A User saved again after its creation, with its 'create' record and the
\* 'update' record of the later save both stored.
C22_UserCreatedThenUpdated ==
    /\ Saved /\ op.obj.kind = UserKind /\ ~op.created
    /\ \E i, j \in RecordsOf(op.obj) :
          /\ i < j
          /\ logs[i].action_type = "create" /\ logs[i].user = op.obj.pk
          /\ logs[j].action_type = "update" /\ logs[j].user = op.obj.pk

\* The positions in logs' of the records whose description holds the title.
Mentioning(title) == {j \in 1..Len(logs') : logs'[j].description.name = title}

C24_AdminAppendOnly ==
    [][view'.name \in {"admin", "inline"} /\ now' = now
          => /\ view'.what \in {"add", "change"}
                  => logs' = logs /\ view'.status = "403"
             /\ logs' # logs
                  => /\ view'.what = "delete"
                     /\ view'.request.is_superuser
                     /\ Rows(logs') \subseteq Stored]_vars

\* A superuser has just deleted a record through ActionLogAdmin: one of the
\* records written so far is no longer stored.
C24_SuperuserDeleted ==
    /\ view.name = "admin" /\ view.what = "delete"
    /\ view.request.is_superuser /\ view.status = "302"
    /\ Len(logs) + 1 = nextLogId - 1

\* C25: no reachable state holds a record that was emitted with a target but
\* is stored with empty content_type or object_id: the row of a log_action
\* call that is between its two statements already carries the target the
\* call was given.
C25_NoPartialRecord ==
    \A w \in Callers :
        calls[w].pc = "log_action"
            => \A l \in Stored :
                  l.id = calls[w].log.id
                      => /\ l.content_type = calls[w].log.content_type
                         /\ l.object_id = calls[w].log.object_id

\* A log_action call given a target has inserted its row and not yet saved
\* it: the row is stored, readable by every other process, without target.
C25_TargetlessBetweenSteps ==
    \E w \in Callers : \E l \in Stored :
        /\ calls[w].pc = "log_action"
        /\ calls[w].log.content_type # NoType
        /\ l.id = calls[w].log.id
        /\ l.content_type = NoType /\ l.object_id = NoId

\* C26: in every reachable state the action_type of every stored record is
\* one of the ten kinds of ACTION_TYPES.
C26_ActionTypeInEnum ==
    \A l \in Stored : l.action_type \in ACTION_TYPES

\* log_action was just called with an action type outside ACTION_TYPES and
\* the record it returned is stored with that action type.
C26_UnknownActionTypeStored ==
    /\ op.name \in {"log_action", "model_log_action"} /\ ~op.raised
    /\ op.args.action_type \notin ACTION_TYPES
    /\ \E l \in Stored : l.id = op.ret.id /\ l.action_type = op.args.action_type

\* The first of author, user, created_by the instance has, None when it has
\* none of them.
FirstActor(instance) ==
    IF "author" \in DOMAIN instance.attrs THEN instance.attrs["author"]
    ELSE IF "user" \in DOMAIN instance.attrs THEN instance.attrs["user"]
    ELSE IF "created_by" \in DOMAIN instance.attrs THEN instance.attrs["created_by"]
    ELSE NULL

ClientAddress(request) ==
    IF Len(request.HTTP_X_FORWARDED_FOR) > 0
    THEN request.HTTP_X_FORWARDED_FOR[1]
    ELSE request.REMOTE_ADDR

\* C28: for a view using ActionLoggingMixin with log_action enabled, each
\* dispatch by an authenticated user appends exactly one record, with actor
\* request.user, the view's action_type and the client address as
\* ip_address; a dispatch by an unauthenticated user appends none.
C28_DispatchLogsOnce ==
    [][(view'.name = "dispatch" /\ now' = now /\ view'.self.log_action)
          => IF view'.request.user # NULL
             THEN /\ Cardinality(Appended) = 1
                  /\ \A j \in Appended :
                        /\ logs'[j].user = view'.request.user
                        /\ logs'[j].action_type = view'.self.action_type
                        /\ logs'[j].ip_address = ClientAddress(view'.request)
             ELSE Appended = {}]_vars

\* A view with log_action enabled has just answered an authenticated user
\* and no record of the view's action type is stored.
C28_AuthenticatedDispatchUnlogged ==
    /\ view.name = "dispatch" /\ view.self.log_action
    /\ view.request.user \in users
    /\ view.status = "200"
    /\ \A l \in Stored : l.action_type # view.self.action_type
====
